---------------------------- MODULE Spec2Model ----------------------------
(***************************************************************************)
(* Model of the Moneytree tracking bot (src/main.py): the poll loop        *)
(* log_loop, the per-transaction handler handle_event, the retry wrapper   *)
(* put around get_block_number and get_transaction_action by the           *)
(* @retry(tries=5, delay=2, backoff=2, jitter=(1, 3)) decorator, the        *)
(* Telegram dispatch send_telegram_message and the forward thread          *)
(* notify_trading_bot.                                                     *)
(*                                                                         *)
(* Strings are modelled as sequences of tokens (words), so that            *)
(* str.startswith and the substring test `in` are computed, not assumed.   *)
(*                                                                         *)
(* Two specifications:                                                     *)
(*   Spec       the process: log_loop, handle_event, the forward threads,  *)
(*              termination by an uncaught exception, and the restart by   *)
(*              a supervisor.  A retry-wrapped call is one step.           *)
(*   SpecRetry  the retry wrapper alone, applied to every sequence of      *)
(*              attempt outcomes and jitter values.                        *)
(***************************************************************************)
EXTENDS Integers, Sequences, FiniteSets, TLC

VARIABLES
    \* feature toggles, src/main.py:26-29
    SEND_TELEGRAM_MESSAGES,
    ALLOW_SWAP_MESSAGES_ONLY,
    ALLOW_AGGREGATED_MESSAGES_ALSO,
    ALLOW_MONEYTREE_TRADING_BOT_INTERACTION,
    \* log_loop locals
    pc,             \* position of the main thread
    latest_block,   \* log_loop: latest_block (lastProcessedBlock)
    current_block,  \* log_loop: current_block (the fetched head)
    block_num,      \* log_loop: block_num of the for loop
    block_txs,      \* len(block.transactions) of the fetched block
    txi,            \* index (1-based) of the transaction the inner loop is at
    \* handle_event locals
    tx,             \* the transaction being handled: [from, to, hash]
    action_text,    \* handle_event: action_text
    \* number of forward threads started and not yet finished
    threads,
    \* observation (history) of what the program did
    lastHandled,    \* hash of the latest transaction handed to handle_event
    blockHanded,    \* indexes of the fetched block handed to handle_event
    fetched,        \* heights given to web3.eth.get_block in this run
    blocksDone,     \* heights whose every transaction was handled and returned
    callLog,        \* calls made by the current handle_event call, in order
    lastSent,       \* tx_hash of the latest message given to send_telegram_message
    crash,          \* why the process terminated: [call, fails]
    lostRange,      \* heights of the range in progress at the latest crash
    start_block,    \* the head log_loop got at line 251 of this run
    forwarded,      \* what the latest forward thread that ended had done
    \* SpecPage: an explorer page and what the extraction made of it
    page,           \* the lines of response.text
    page_out,       \* the outcome of the extraction, or NoOutcome
    \* SpecRetry: a retry-wrapped call and what it came to
    retry_in,       \* [outcomes, jitters] of the attempts
    retry_out       \* the result of the wrapper, or NoResult

vars == << SEND_TELEGRAM_MESSAGES, ALLOW_SWAP_MESSAGES_ONLY,
           ALLOW_AGGREGATED_MESSAGES_ALSO, ALLOW_MONEYTREE_TRADING_BOT_INTERACTION,
           pc, latest_block, current_block, block_num, block_txs, txi,
           tx, action_text, threads, lastHandled, blockHanded, fetched,
           blocksDone, callLog, lastSent, crash, lostRange, start_block,
           forwarded, page, page_out, retry_in, retry_out >>

toggles == << SEND_TELEGRAM_MESSAGES, ALLOW_SWAP_MESSAGES_ONLY,
              ALLOW_AGGREGATED_MESSAGES_ALSO, ALLOW_MONEYTREE_TRADING_BOT_INTERACTION >>
loopVars == << latest_block, current_block, block_num, block_txs, txi >>
histVars == << lastHandled, blockHanded, fetched, blocksDone, lastSent >>
crashVars == << crash, lostRange >>
retryVars == << retry_in, retry_out >>
pageVars == << page, page_out >>
procVars == << pc, loopVars, tx, action_text, threads, histVars, callLog,
               crashVars, start_block, forwarded >>

-----------------------------------------------------------------------------
(* Bounds of the model *)

\* heights the chain client can report are 0..MaxHead
MaxHead == 2
\* a block holds at most MaxTx transactions
MaxTx == 2
\* forward threads pending at the same time
MaxPending == 1

(* Program constants *)

\* @retry(tries=5, ...)
Tries == 5
\* @retry(..., delay=2, ...)
Delay == 2
\* @retry(..., backoff=2, ...)
Backoff == 2
\* @retry(..., jitter=(1, 3)): random.uniform(1, 3), sampled at the integers
JitterLo == 1
JitterHi == 3

\* value of a local that is not bound yet
NoBlock == 0 - 1
NoTx == [from |-> "", to |-> "", hash |-> << 0, 0 >>]
NoText == << >>
NoCrash == [call |-> "none", fails |-> 0]
NoForward == [posts |-> 0, error |-> FALSE]
NoPage == << >>
NoOutcome == [ok |-> TRUE, val |-> << "none" >>]
None == "None"

-----------------------------------------------------------------------------
(* Strings as token sequences *)

\* str.startswith(prefix)
StartsWith(text, prefix) ==
    /\ Len(text) >= Len(prefix)
    /\ SubSeq(text, 1, Len(prefix)) = prefix

\* the substring test `pattern in text`
Contains(text, pattern) ==
    \E i \in 1..(Len(text) - Len(pattern) + 1) :
        SubSeq(text, i, i + Len(pattern) - 1) = pattern

\* the sentinel "No ACTION info available" (src/main.py:170)
Sentinel == << "No", "ACTION", "info", "available" >>

\* action texts an explorer page can yield
ActionTexts ==
    { << "Swap", "ETH", "For", "TOK", "On", "Uniswap" >>,
      << "Swap", "TOK", "For", "ETH", "On", "Uniswap" >>,
      << "Aggregated", "ETH", "For", "ETH", "On", "Uniswap" >>,
      << "Approve", "TOK", "For", "Swap" >> }

-----------------------------------------------------------------------------
(* Addresses: src/main.py:43-47 and 183-189 *)

\* addresses as the chain client reports them (checksum case)
RawAddresses == { "0xAA", "0xBB", "0xCC" }

\* str.lower()
Lower(a) ==
    CASE a = "0xAA" -> "0xaa"
      [] a = "0xBB" -> "0xbb"
      [] a = "0xCC" -> "0xcc"
      [] OTHER -> a

\* ADDRESSES_TO_MONITOR after the lower-casing of line 43
ADDRESSES_TO_MONITOR == { "0xaa", "0xbb" }

\* ADDRESS_MAP.get(address, address)
AddressName(a) ==
    CASE a = "0xaa" -> "Alice"
      [] a = "0xbb" -> "Bob"
      [] OTHER -> a

\* None has no method lower: None.lower() raises AttributeError
AttributeError == "AttributeError"
LowerOrRaise(a) == IF a = None THEN AttributeError ELSE Lower(a)

\* from_address = tx['from'].lower()
from_address(t) == LowerOrRaise(t.from)
\* variant: tx['to'].lower() without the test of tx['to']
to_address_unguarded(t) == LowerOrRaise(t.to)

\* to_address = tx['to'].lower() if tx['to'] else None
to_address(t) == IF t.to = None THEN None ELSE LowerOrRaise(t.to)

\* variant: the transactions of a block listed from the last to the first
Transactions_reversed(b, i) ==
    { [ from |-> f, to |-> t, hash |-> << b, MaxTx + 1 - i >> ] :
        f \in RawAddresses, t \in RawAddresses \cup { None } }

\* transactions a block can hold at position i of block b
Transactions(b, i) ==
    { [from |-> f, to |-> t, hash |-> << b, i >>] :
        f \in RawAddresses, t \in RawAddresses \cup { None } }

\* blockchain order of transactions: lower height, or same height and lower index
Before(h1, h2) == h1[1] < h2[1] \/ (h1[1] = h2[1] /\ h1[2] < h2[2])

-----------------------------------------------------------------------------
(* The retry decorator, src/main.py:116 and 172: the loop of the retry      *)
(* package,                                                                 *)
(*     _tries, _delay = tries, delay                                        *)
(*     while _tries:                                                        *)
(*         try: return f()                                                  *)
(*         except: _tries -= 1                                              *)
(*                 if not _tries: raise                                     *)
(*                 time.sleep(_delay); _delay *= backoff                    *)
(*                 _delay += random.uniform(1, 3)                           *)
(* An attempt outcome is [ok, val]: val is the value returned, or the       *)
(* error raised.  The result is [raised, val, attempts, sleeps].            *)

Ok(v) == [ok |-> TRUE, val |-> v]
Fail(e) == [ok |-> FALSE, val |-> e]

\* variant: the wrapper gives up with one try left
RetryExhausted_early(t) == t <= 1

\* `if not _tries`
RetryExhausted(t) == t = 0

\* variant: the jitter is added before the delay is multiplied
NextDelay_jitter_first(d, j) == (d + j) * Backoff

\* _delay *= backoff; _delay += jitter
NextDelay(d, j) == d * Backoff + j

RECURSIVE RetryLoop(_, _, _, _, _, _)
RetryLoop(t, d, n, outcomes, jitters, sleeps) ==
    IF t = 0
    THEN [raised |-> FALSE, val |-> None, attempts |-> n, sleeps |-> sleeps]
    ELSE LET o == outcomes[n + 1] IN
         IF o.ok
         THEN [raised |-> FALSE, val |-> o.val, attempts |-> n + 1,
               sleeps |-> sleeps]
         ELSE IF RetryExhausted(t - 1)
         THEN [raised |-> TRUE, val |-> o.val, attempts |-> n + 1,
               sleeps |-> sleeps]
         ELSE RetryLoop(t - 1, NextDelay(d, jitters[n + 1]), n + 1,
                        outcomes, jitters, Append(sleeps, d))

\* the decorated function is called
Retry(outcomes, jitters) == RetryLoop(Tries, Delay, 0, outcomes, jitters, << >>)

\* k failing attempts with outcome f, then attempts with outcome o
FailsThen(k, f, o) == [i \in 1..Tries |-> IF i <= k THEN f ELSE o]

\* the jitter values decide the sleeps only: the process steps take the lowest
SomeJitters == [i \in 1..(Tries - 1) |-> JitterLo]

\* the result of a wrapped call of which k attempts fail with f and the next
\* ones have outcome o
WrappedCall(k, f, o) == Retry(FailsThen(k, f, o), SomeJitters)

-----------------------------------------------------------------------------
(* The explorer page, src/main.py:78-114 and 133-164. A page is the         *)
(* sequence of the lines of response.text, a line the sequence of its       *)
(* words and HTML tags.                                                     *)

\* lines of a page in SpecPage
MaxLines == 4

Marker == "Transaction Action: "
SponsoredWord == "Sponsored:"
SponsoredTag == "<div title='Sponsored:'>"
LinkTag == "<a href='/token/0x..'>"
LinkEnd == "</a>"
Tags == { "<span>", "</span>", "<br>", LinkTag, LinkEnd, SponsoredTag }
\* line 87: unwanted_strings
Unwanted == { "Click to show more", "Click to show less" }
NoToken == ""

\* lines 82-90: what clean_html keeps of a line
IsText(tok) == tok \notin Tags \cup Unwanted
clean_html(raw) == SelectSeq(raw, IsText)

\* `'Transaction Action: ' in line` and `'Sponsored:' in lines[j]`
HasMarker(line) == \E k \in 1..Len(line) : line[k] = Marker
HasSponsored(line) ==
    \E k \in 1..Len(line) : line[k] \in { SponsoredWord, SponsoredTag }

\* line.strip().replace('Transaction Action: ', '').strip()
NotMarker(tok) == tok # Marker
StripMarker(line) == SelectSeq(line, NotMarker)

\* '\n'.join(lines[a:b]) with 1-based a..b
RECURSIVE Join(_, _, _)
Join(lines, a, b) ==
    IF a > b THEN << >> ELSE lines[a] \o Join(lines, a + 1, b)

\* lines 94-107, extract_token_link: the text of the first token link
TokenText(action_line) ==
    LET ks == { k \in 1..(Len(action_line) - 2) :
                  /\ action_line[k] = LinkTag
                  /\ action_line[k + 2] = LinkEnd }
    IN  IF ks = {}
        THEN NoToken
        ELSE action_line[(CHOOSE k \in ks : \A l \in ks : k <= l) + 1]

\* line 159: f"[{token_text}]({token_link})"
Linked(tok) ==
    CASE tok = "TOK" -> "[TOK](https://etherscan.io/token/0x..)"
      [] OTHER -> tok

\* lines 158-159: cleaned_action.replace(token_text, ...)
WithLink(text, tok) ==
    IF tok = NoToken
    THEN text
    ELSE [k \in 1..Len(text) |-> IF text[k] = tok THEN Linked(tok) ELSE text[k]]

\* lines 109-114, escape_markdown, word by word
Escaped(tok) ==
    CASE tok = "[TOK](https://etherscan.io/token/0x..)"
             -> "[TOK](https://etherscan\\.io/token/0x\\.\\.)"
      [] tok = "V2.0" -> "V2\\.0"
      [] OTHER -> tok
escape_markdown(text) == [k \in 1..Len(text) |-> Escaped(text[k])]

\* lines 154-164: from action_line to the returned text
Finish(action_line) ==
    escape_markdown(WithLink(clean_html(action_line), TokenText(action_line)))

-----------------------------------------------------------------------------
(* get_transaction_action, src/main.py:117-170: one execution of the body   *)

\* lines 133-164: the ladder over the lines of the page; lines[i + 1] of
\* line 142 raises IndexError when the marker line is the last one, and
\* `if sponsored_index` of line 148 is false for None and for index 0
ExtractAction(lines) ==
    LET is == { i \in 1..Len(lines) : HasMarker(lines[i]) }
    IN  IF is = {}
        THEN Ok(Sentinel)
        ELSE
          LET i == CHOOSE k \in is : \A l \in is : k <= l
              js == { j \in i..Len(lines) : HasSponsored(lines[j]) }
          IN  IF clean_html(StripMarker(lines[i])) # << >>
              THEN Ok(Finish(StripMarker(lines[i])))
              ELSE IF i + 1 > Len(lines)
              THEN Fail("IndexError")
              ELSE IF clean_html(lines[i + 1]) # << >>
              THEN Ok(Finish(lines[i + 1]))
              ELSE IF js = {} \/ 1 \in js
              THEN Ok(Finish(Sentinel))
              ELSE Ok(Finish(Join(lines, i + 1,
                        (CHOOSE j \in js : \A l \in js : j <= l) - 1)))

\* a page whose marker line holds the action text
MarkerLine(text) == << << "<span>", Marker, "</span>" >> \o text >>

\* pages the explorer can answer with in Spec: the marker line with an
\* action text, no marker, the marker on the last line, and an empty block
\* before "Sponsored:"
SomePages ==
    { MarkerLine(t) : t \in ActionTexts }
    \cup { << << "<br>" >> >>,
           << << Marker >> >>,
           << << Marker >>, << >>, << "<br>" >>, << SponsoredWord >> >> }

\* what requests.get yields: a network error, or a response with a status
\* and, for status 200, the lines of its text
Responses ==
    { [kind |-> "network_error", status |-> 0, lines |-> NoPage] }
    \cup { [kind |-> "response", status |-> st, lines |-> NoPage] :
             st \in { 204, 404, 503 } }
    \cup { [kind |-> "response", status |-> 200, lines |-> p] :
             p \in SomePages }

\* response.raise_for_status(): raises for 4xx and 5xx
RaiseForStatus(st) == st >= 400 /\ st < 600

\* the body, as an attempt outcome
get_transaction_action(r) ==
    IF r.kind = "network_error"
    THEN Fail("ConnectionError")
    ELSE IF r.status = 200
    THEN ExtractAction(r.lines)
    ELSE IF RaiseForStatus(r.status)
    THEN Fail("HTTPError")
    ELSE Ok(Sentinel)

\* responses with which the body returns, and with which it raises
ActionReturns == { r \in Responses : get_transaction_action(r).ok }
ActionRaises == { r \in Responses : ~ get_transaction_action(r).ok }

-----------------------------------------------------------------------------
(* get_block_number, src/main.py:172-177: one execution of the body *)

\* web3.eth.block_number returns the height h, or the provider raises
\* (h = NoBlock)
get_block_number(h) == IF h = NoBlock THEN Fail("ProviderError") ELSE Ok(h)
Heads == 0..MaxHead

-----------------------------------------------------------------------------
(* The initial state: the module has been loaded, log_loop(10) is entered *)

NoInput == [outcomes |-> << >>, jitters |-> << >>]
NoResult == [raised |-> FALSE, val |-> << "none", 0 >>, attempts |-> 0,
             sleeps |-> << >>]

InitProcess ==
    /\ pc = "start"
    /\ latest_block = NoBlock
    /\ current_block = NoBlock
    /\ block_num = NoBlock
    /\ block_txs = 0
    /\ txi = 0
    /\ tx = NoTx
    /\ action_text = NoText
    /\ threads = 0
    /\ lastHandled = << 0, 0 >>
    /\ blockHanded = {}
    /\ fetched = {}
    /\ blocksDone = {}
    /\ callLog = << >>
    /\ lastSent = << 0, 0 >>
    /\ crash = NoCrash
    /\ lostRange = {}
    /\ start_block = NoBlock
    /\ forwarded = NoForward

Init ==
    /\ SEND_TELEGRAM_MESSAGES \in BOOLEAN
    /\ ALLOW_SWAP_MESSAGES_ONLY \in BOOLEAN
    /\ ALLOW_AGGREGATED_MESSAGES_ALSO \in BOOLEAN
    /\ ALLOW_MONEYTREE_TRADING_BOT_INTERACTION \in BOOLEAN
    /\ InitProcess
    /\ retry_in = NoInput
    /\ retry_out = NoResult
    /\ page = NoPage
    /\ page_out = NoOutcome

-----------------------------------------------------------------------------
(* Exceptions: nothing in log_loop or handle_event catches, so an exception *)
(* raised by a call ends the process                                        *)

\* positions inside the for loop over range(latest_block + 1, current_block + 1)
RangePcs == { "range", "txs", "he_extract", "he_gate", "he_send_out",
              "he_to", "he_ret" }

\* the locals of the main thread, and what was observed of it, are unbound
NoLocals ==
    /\ latest_block' = NoBlock
    /\ current_block' = NoBlock
    /\ block_num' = NoBlock
    /\ block_txs' = 0
    /\ txi' = 0
    /\ tx' = NoTx
    /\ action_text' = NoText
    /\ lastHandled' = << 0, 0 >>
    /\ blockHanded' = {}
    /\ fetched' = {}
    /\ blocksDone' = {}
    /\ callLog' = << >>
    /\ lastSent' = << 0, 0 >>
    /\ start_block' = NoBlock

\* the exception of `call`, which failed `fails` times, ends the main thread
Raise(call, fails) ==
    /\ pc' = "crashed"
    /\ crash' = [call |-> call, fails |-> fails]
    /\ lostRange' = IF pc \in RangePcs
                    THEN (latest_block + 1)..current_block
                    ELSE {}
    /\ NoLocals
    /\ UNCHANGED << toggles, threads, retryVars,
                    forwarded, pageVars >>

-----------------------------------------------------------------------------
(* log_loop, src/main.py:247-262 *)

\* variant: a single new block is not a new range
NewBlocks_gap(cur, latest) == cur > latest + 1

\* `if current_block > latest_block`
NewBlocks(cur, latest) == cur > latest

\* variant: the range starts at the last processed height
RangeFirst_inclusive(latest) == latest

\* first height of range(latest_block + 1, current_block + 1)
RangeFirst(latest) == latest + 1

\* variant: the range stops below the fetched head
RangeLast_short(cur) == cur - 1

\* last height of range(latest_block + 1, current_block + 1)
RangeLast(cur) == cur

\* the retry-wrapped get_block_number() of lines 251 and 255: k attempts
\* raise, the next ones return h
GetBlockNumberCall(k, h) ==
    WrappedCall(k, get_block_number(NoBlock), get_block_number(h))

\* the heights the wrapped call can return
GetBlockNumberReturns ==
    { GetBlockNumberCall(c[1], c[2]).val :
        c \in { d \in (0..Tries) \X Heads :
                           ~ GetBlockNumberCall(d[1], d[2]).raised } }

\* the numbers of failed attempts after which the wrapped call can raise
GetBlockNumberRaisesAfter ==
    { GetBlockNumberCall(c[1], c[2]).attempts :
        c \in { d \in (0..Tries) \X Heads :
                           GetBlockNumberCall(d[1], d[2]).raised } }

\* line 251: latest_block = get_block_number()
Startup ==
    /\ pc = "start"
    /\ \E h \in GetBlockNumberReturns :
         /\ latest_block' = h
         /\ start_block' = h
    /\ pc' = "poll"
    /\ UNCHANGED << toggles, current_block, block_num, block_txs, txi, tx,
                    action_text, threads, histVars, callLog, crashVars,
                    retryVars,
                    forwarded, pageVars >>

\* lines 255-256: current_block = get_block_number() and the comparison
Poll ==
    /\ pc = "poll"
    /\ \E h \in GetBlockNumberReturns :
         /\ current_block' = h
         /\ IF NewBlocks(h, latest_block)
            THEN /\ block_num' = RangeFirst(latest_block)
                 /\ pc' = "range"
            ELSE /\ block_num' = block_num
                 /\ pc' = "sleep"
    /\ lostRange' = {}
    /\ UNCHANGED << toggles, latest_block, block_txs, txi, tx, action_text,
                    threads, histVars, callLog, crash, retryVars,
                    start_block, forwarded, pageVars >>

\* lines 251 and 255: get_block_number() raises out of the retry wrapper
GetBlockNumberRaises ==
    /\ pc \in { "start", "poll" }
    /\ \E n \in GetBlockNumberRaisesAfter :
         Raise("get_block_number", n)

\* line 262
Sleep ==
    /\ pc = "sleep"
    /\ pc' = "poll"
    /\ UNCHANGED << toggles, loopVars, tx, action_text, threads, histVars,
                    callLog, crashVars, retryVars,
                    start_block, forwarded, pageVars >>

\* lines 257-258: the for statement has a next height, and
\* web3.eth.get_block(block_num, full_transactions=True) returns
GetBlock ==
    /\ pc = "range"
    /\ block_num <= RangeLast(current_block)
    /\ \E n \in 0..MaxTx :
         block_txs' = n
    /\ txi' = 1
    /\ fetched' = fetched \cup { block_num }
    /\ blockHanded' = {}
    /\ pc' = "txs"
    /\ UNCHANGED << toggles, latest_block, current_block, block_num, tx,
                    action_text, threads, lastHandled, blocksDone, lastSent,
                    callLog, crashVars, retryVars,
                    start_block, forwarded, pageVars >>

\* line 258: web3.eth.get_block raises; the call is not retry-wrapped
GetBlockRaises ==
    /\ pc = "range"
    /\ block_num <= RangeLast(current_block)
    /\ Raise("get_block", 1)

\* line 259: the inner loop is over, the for statement of line 257 goes on
BlockDone ==
    /\ pc = "txs"
    /\ txi > block_txs
    /\ blocksDone' = blocksDone \cup { block_num }
    /\ block_num' = block_num + 1
    /\ pc' = "range"
    /\ UNCHANGED << toggles, latest_block, current_block, block_txs, txi, tx,
                    action_text, threads, lastHandled, blockHanded, fetched,
                    lastSent, callLog, crashVars, retryVars,
                    start_block, forwarded, pageVars >>

\* line 261: the range is exhausted, latest_block = current_block
RangeDone ==
    /\ pc = "range"
    /\ block_num > RangeLast(current_block)
    /\ latest_block' = current_block
    /\ pc' = "sleep"
    /\ UNCHANGED << toggles, current_block, block_num, block_txs, txi, tx,
                    action_text, threads, histVars, callLog, crashVars,
                    retryVars,
                    start_block, forwarded, pageVars >>

\* the for statement of line 259 takes the next transaction
NextTx ==
    /\ pc = "he_ret"
    /\ txi' = txi + 1
    /\ tx' = NoTx
    /\ action_text' = NoText
    /\ callLog' = << >>
    /\ pc' = "txs"
    /\ UNCHANGED << toggles, latest_block, current_block, block_num, block_txs,
                    threads, histVars, crashVars, retryVars,
                    start_block, forwarded, pageVars >>

\* the process exits when its last thread has ended, and the supervisor
\* starts it again: log_loop(10) is entered with every local unbound
Restart ==
    /\ pc = "crashed"
    /\ threads = 0
    /\ pc' = "start"
    /\ crash' = NoCrash
    /\ forwarded' = NoForward
    /\ UNCHANGED << toggles, loopVars, tx, action_text, threads, histVars,
                    callLog, lostRange, retryVars,
                    start_block, pageVars >>

-----------------------------------------------------------------------------
(* handle_event, src/main.py:179-234 *)

\* variant: the gate looks for "Swap" anywhere in the text
GateDiscards_contains(text) ==
    /\ ALLOW_SWAP_MESSAGES_ONLY
    /\ ~ Contains(text, << "Swap" >>)

\* variant: "Aggregated" passes whatever ALLOW_AGGREGATED_MESSAGES_ALSO is
GateDiscards_aggregated_always(text) ==
    /\ ALLOW_SWAP_MESSAGES_ONLY
    /\ ~ ( \/ StartsWith(text, << "Swap" >>)
           \/ StartsWith(text, << "Aggregated" >>) )

\* line 199: the swap-only gate discards the event
GateDiscards(text) ==
    /\ ALLOW_SWAP_MESSAGES_ONLY
    /\ ~ ( \/ StartsWith(text, << "Swap" >>)
           \/ ( /\ ALLOW_AGGREGATED_MESSAGES_ALSO
                /\ StartsWith(text, << "Aggregated" >>) ) )

\* variant: the second test is an elif of the first
TokenAction_elif(text) ==
    IF Contains(text, << "ETH", "For" >>)
    THEN << "BUY" >>
    ELSE IF Contains(text, << "ETH", "On" >>) THEN << "SELL" >> ELSE << >>

\* lines 210-214: token_action
TokenAction(text) ==
    (IF Contains(text, << "ETH", "For" >>) THEN << "BUY" >> ELSE << >>)
    \o (IF Contains(text, << "ETH", "On" >>) THEN << "SELL" >> ELSE << >>)

\* variant: the details keep the hash of the transaction notified before
TransactionDetails_previous(t, text) ==
    [from_name |-> AddressName(from_address(t)),
     tx_hash |-> lastSent,
     action_text |-> text]

\* lines 202-206: transaction_details
TransactionDetails(t, text) ==
    [from_name |-> AddressName(from_address(t)),
     tx_hash |-> t.hash,
     action_text |-> text]

\* an entry of callLog
Call(name, kind, arg) == [call |-> name, kind |-> kind, arg |-> arg]

\* `return` of handle_event
Return == pc' = "he_ret"

\* the retry-wrapped get_transaction_action(tx_hash) of line 197: k attempts
\* get the response f, the next ones the response r
GetTransactionActionCall(k, f, r) ==
    WrappedCall(k, get_transaction_action(f), get_transaction_action(r))

\* the texts the wrapped call can return
GetTransactionActionReturns ==
    { GetTransactionActionCall(c[1], c[2], c[3]).val :
        c \in { d \in (0..Tries) \X ActionRaises \X ActionReturns :
                  ~ GetTransactionActionCall(d[1], d[2], d[3]).raised } }

\* the numbers of failed attempts after which the wrapped call can raise
GetTransactionActionRaisesAfter ==
    { GetTransactionActionCall(c[1], c[2], c[3]).attempts :
        c \in { d \in (0..Tries) \X ActionRaises \X ActionReturns :
                  GetTransactionActionCall(d[1], d[2], d[3]).raised } }

\* lines 183-196: handle_event(tx) is entered with the transaction at txi of
\* the block; what the transaction holds is read here
HandleEvent ==
    /\ pc = "txs"
    /\ txi <= block_txs
    /\ \E t \in Transactions(block_num, txi) :
         IF AttributeError \in { from_address(t), to_address(t) }
         THEN Raise("handle_event", 1)
         ELSE /\ tx' = t
              /\ lastHandled' = t.hash
              /\ blockHanded' = blockHanded \cup { t.hash[2] }
              /\ IF from_address(t) \in ADDRESSES_TO_MONITOR
                 THEN pc' = "he_extract"
                 ELSE pc' = "he_to"
              /\ callLog' = << >>
              /\ UNCHANGED << toggles, loopVars, action_text, threads,
                              fetched, blocksDone, lastSent, crashVars,
                              retryVars, start_block, forwarded, pageVars >>

\* line 197: action_text = get_transaction_action(tx_hash)
Extract ==
    /\ pc = "he_extract"
    /\ \E text \in GetTransactionActionReturns :
         action_text' = text
    /\ callLog' = Append(callLog, Call("get_transaction_action", "", tx.hash))
    /\ pc' = "he_gate"
    /\ UNCHANGED << toggles, loopVars, tx, threads, histVars, crashVars,
                    retryVars,
                    start_block, forwarded, pageVars >>

\* line 197: get_transaction_action(tx_hash) raises out of the retry wrapper
ExtractRaises ==
    /\ pc = "he_extract"
    /\ \E n \in GetTransactionActionRaisesAfter :
         Raise("get_transaction_action", n)

\* line 208: threading.Thread(...).start(); the count of pending threads
\* stands at MaxPending for MaxPending or more
StartThread(n) == IF n < MaxPending THEN n + 1 ELSE n

\* lines 199-208: the gate, and the start of the forward thread
Gate ==
    /\ pc = "he_gate"
    /\ IF GateDiscards(action_text)
       THEN /\ Return
            /\ UNCHANGED << threads, callLog >>
       ELSE /\ IF ALLOW_MONEYTREE_TRADING_BOT_INTERACTION
               THEN /\ threads' = StartThread(threads)
                    /\ callLog' = Append(callLog,
                                     Call("notify_trading_bot", "",
                                          TransactionDetails(tx, action_text)))
               ELSE UNCHANGED << threads, callLog >>
            /\ pc' = "he_send_out"
    /\ UNCHANGED << toggles, loopVars, tx, action_text, histVars, crashVars,
                    retryVars,
                    start_block, forwarded, pageVars >>

\* lines 216-221 and 228-233: the message, by the fields the claims read
Message(kind, label, t) == [kind |-> kind, label |-> label, tx_hash |-> t.hash]

\* lines 210-222: send_telegram_message(message) returns, having posted the
\* message or, with SEND_TELEGRAM_MESSAGES off, having logged it
SendOutgoing ==
    /\ pc = "he_send_out"
    /\ callLog' = Append(callLog,
                     Call("send_telegram_message", "OUT",
                          Message("OUT", TokenAction(action_text), tx)))
    /\ lastSent' = tx.hash
    /\ pc' = "he_to"
    /\ UNCHANGED << toggles, loopVars, tx, action_text, threads, lastHandled,
                    blockHanded, fetched, blocksDone, crashVars, retryVars,
                    start_block, forwarded, pageVars >>

\* line 222: requests.post of send_telegram_message raises; not retry-wrapped
SendOutgoingRaises ==
    /\ pc = "he_send_out"
    /\ SEND_TELEGRAM_MESSAGES
    /\ Raise("send_telegram_message", 1)

\* variant: the incoming message is sent whatever the swap-only gate is
IncomingFires_ungated(t) == to_address(t) \in ADDRESSES_TO_MONITOR

\* variant: the incoming branch is an else branch of the outgoing one
IncomingFires_exclusive(t) ==
    /\ to_address(t) \in ADDRESSES_TO_MONITOR
    /\ from_address(t) \notin ADDRESSES_TO_MONITOR
    /\ ~ ALLOW_SWAP_MESSAGES_ONLY

\* lines 224-227: the recipient is monitored and the gate does not return
IncomingFires(t) ==
    /\ to_address(t) \in ADDRESSES_TO_MONITOR
    /\ ~ ALLOW_SWAP_MESSAGES_ONLY

\* lines 224-234, send_telegram_message returns
Incoming ==
    /\ pc = "he_to"
    /\ IF IncomingFires(tx)
       THEN /\ callLog' = Append(callLog,
                             Call("send_telegram_message", "IN",
                                  Message("IN", << >>, tx)))
            /\ lastSent' = tx.hash
       ELSE UNCHANGED << callLog, lastSent >>
    /\ Return
    /\ UNCHANGED << toggles, loopVars, tx, action_text, threads, lastHandled,
                    blockHanded, fetched, blocksDone, crashVars, retryVars,
                    start_block, forwarded, pageVars >>

\* line 234: requests.post of send_telegram_message raises
IncomingRaises ==
    /\ pc = "he_to"
    /\ IncomingFires(tx)
    /\ SEND_TELEGRAM_MESSAGES
    /\ Raise("send_telegram_message", 1)

-----------------------------------------------------------------------------
(* notify_trading_bot, src/main.py:236-245: the thread posts the details;   *)
(* a failure is caught and logged, and the thread ends either way           *)

\* what requests.post and raise_for_status come to
PostOutcomes == { "ok", "http_error", "network_error" }

\* variant: the post is tried again, as a retry-wrapped call would be
notify_trading_bot_retried(o) ==
    [posts |-> IF o = "ok" THEN 1 ELSE Tries, error |-> o # "ok"]

\* lines 240-245: one requests.post; a RequestException is logged
notify_trading_bot(o) == [posts |-> 1, error |-> o # "ok"]

\* a pending forward thread runs notify_trading_bot and ends
NotifyTradingBot ==
    /\ threads > 0
    /\ threads' = threads - 1
    /\ \E o \in PostOutcomes :
         forwarded' = notify_trading_bot(o)
    /\ UNCHANGED << toggles, pc, loopVars, tx, action_text, histVars, callLog,
                    crashVars, retryVars,
                    start_block, pageVars >>

-----------------------------------------------------------------------------
Next ==
    \/ Startup
    \/ Poll
    \/ GetBlockNumberRaises
    \/ Sleep
    \/ GetBlock
    \/ GetBlockRaises
    \/ BlockDone
    \/ RangeDone
    \/ HandleEvent
    \/ Extract
    \/ ExtractRaises
    \/ Gate
    \/ SendOutgoing
    \/ SendOutgoingRaises
    \/ Incoming
    \/ IncomingRaises
    \/ NextTx
    \/ NotifyTradingBot
    \/ Restart

Spec == Init /\ [][Next]_vars

\* a step the main thread takes when the call it makes returns
MainThreadStep ==
    \/ Startup \/ Poll \/ Sleep \/ GetBlock \/ BlockDone \/ RangeDone
    \/ HandleEvent \/ Extract \/ Gate \/ SendOutgoing \/ Incoming \/ NextTx

\* The runs in which no call raises: every retry-wrapped call returns
\* within its attempts, web3.eth.get_block and send_telegram_message return.
\* log_loop is sequential code on the main thread: a call that returns, a
\* time.sleep that ends, a loop that goes on is a step that is taken.
NextLive == MainThreadStep \/ NotifyTradingBot

\* the toggles as lines 26-29 set them
InitLive ==
    /\ SEND_TELEGRAM_MESSAGES = TRUE
    /\ ALLOW_SWAP_MESSAGES_ONLY = TRUE
    /\ ALLOW_AGGREGATED_MESSAGES_ALSO = TRUE
    /\ ALLOW_MONEYTREE_TRADING_BOT_INTERACTION = TRUE
    /\ InitProcess
    /\ retry_in = NoInput
    /\ retry_out = NoResult
    /\ page = NoPage
    /\ page_out = NoOutcome

SpecLive == InitLive /\ [][NextLive]_vars /\ WF_vars(MainThreadStep)

-----------------------------------------------------------------------------
(* The retry wrapper alone: a decorated function is called once, its        *)
(* attempts returning or raising as retry_in.outcomes says                  *)

\* attempt i returns result i, or raises error i
Outcome(i, returns) ==
    IF returns THEN Ok(<< "result", i >>) ELSE Fail(<< "error", i >>)

RetryInputs ==
    { [outcomes |-> [i \in 1..Tries |-> Outcome(i, bs[i])], jitters |-> js] :
        bs \in [1..Tries -> BOOLEAN],
        js \in [1..(Tries - 1) -> JitterLo..JitterHi] }

InitRetry ==
    /\ SEND_TELEGRAM_MESSAGES = TRUE
    /\ ALLOW_SWAP_MESSAGES_ONLY = TRUE
    /\ ALLOW_AGGREGATED_MESSAGES_ALSO = TRUE
    /\ ALLOW_MONEYTREE_TRADING_BOT_INTERACTION = TRUE
    /\ InitProcess
    /\ retry_in \in RetryInputs
    /\ retry_out = NoResult
    /\ page = NoPage
    /\ page_out = NoOutcome

RetryCall ==
    /\ retry_out.attempts = 0
    /\ retry_out' = Retry(retry_in.outcomes, retry_in.jitters)
    /\ UNCHANGED << toggles, procVars, retry_in, pageVars >>

NextRetry == RetryCall

SpecRetry == InitRetry /\ [][NextRetry]_vars

-----------------------------------------------------------------------------
(* The extraction alone: the body of get_transaction_action is run on a     *)
(* page of status 200                                                       *)

\* lines a page can hold
PageLines ==
    { << Marker, "Swap" >>,
      << Marker, "Swap", LinkTag, "TOK", LinkEnd, "V2.0" >>,
      << Marker >>,
      << "<span>", Marker, "</span>" >>,
      << Marker, SponsoredTag >>,
      << "Approve" >>,
      << >>,
      << "<br>" >>,
      << "Click to show more" >>,
      << SponsoredWord >> }

\* response.text.split('\n') has at least one element
Pages == UNION { [1..n -> PageLines] : n \in 1..MaxLines }

InitPage ==
    /\ SEND_TELEGRAM_MESSAGES = TRUE
    /\ ALLOW_SWAP_MESSAGES_ONLY = TRUE
    /\ ALLOW_AGGREGATED_MESSAGES_ALSO = TRUE
    /\ ALLOW_MONEYTREE_TRADING_BOT_INTERACTION = TRUE
    /\ InitProcess
    /\ retry_in = NoInput
    /\ retry_out = NoResult
    /\ page \in Pages
    /\ page_out = NoOutcome

\* the extraction has run
Extracted == ~ (page_out.ok /\ page_out.val = NoOutcome.val)

ExtractPage ==
    /\ ~ Extracted
    /\ page_out' = ExtractAction(page)
    /\ UNCHANGED << toggles, procVars, retryVars, page >>

NextPage == ExtractPage

SpecPage == InitPage /\ [][NextPage]_vars


-----------------------------------------------------------------------------
(* Properties *)

\* number of entries of a log that are calls of `name` with kind `kind`
RECURSIVE Count(_, _, _)
Count(log, name, kind) ==
    IF log = << >>
    THEN 0
    ELSE (IF Head(log).call = name /\ Head(log).kind = kind THEN 1 ELSE 0)
         + Count(Tail(log), name, kind)

\* a step of the running process that is not its termination
Running == pc \notin { "start", "crashed" } /\ pc' # "crashed"

\* a step that hands a transaction to handle_event
Hands == pc = "txs" /\ pc' \in { "he_extract", "he_to" }

\* a step that gives a message to send_telegram_message
Sends ==
    /\ Len(callLog') = Len(callLog) + 1
    /\ callLog'[Len(callLog')].call = "send_telegram_message"

\* C1: in log_loop, latest_block never decreases, and it changes only at the
\* end of a range, to the fetched head current_block, when every height of
\* (latest_block, current_block] has had all its transactions handled and
\* handle_event has returned from each; it never takes an intermediate height.
C1_LatestBlockAdvances ==
    [][ Running =>
          /\ latest_block' >= latest_block
          /\ latest_block' # latest_block =>
               /\ latest_block' = current_block
               /\ pc' = "sleep"
               /\ \A b \in (latest_block + 1)..current_block :
                    b \in blocksDone' ]_vars

\* C1 witness: a range of two blocks that held transactions has been
\* processed and latest_block stands at the fetched head.
C1_Witness ==
    /\ pc = "sleep"
    /\ latest_block = current_block
    /\ blocksDone = { 1, 2 }
    /\ lastHandled = << 2, 1 >>

\* C2: transactions are handed to handle_event in blockchain order (lower
\* height first, and in a block lower index first), and a Telegram message is
\* sent for the transaction being handled, never for one that comes before
\* a transaction already notified; across ticks and blocks.
C2_BlockchainOrder ==
    [][ /\ (Hands => Before(lastHandled, lastHandled'))
        /\ (Sends =>
              /\ callLog'[Len(callLog')].arg.tx_hash = lastHandled
              /\ lastSent' = lastHandled
              /\ (lastSent = lastSent' \/ Before(lastSent, lastSent'))) ]_vars

\* C2 witness: a notification for the second transaction of block 2 after a
\* notification for an earlier transaction, block 1 having been processed.
C2_Witness ==
    /\ 1 \in blocksDone
    /\ lastHandled = << 2, 2 >>
    /\ lastSent = << 2, 2 >>
    /\ Count(callLog, "send_telegram_message", "OUT") = 1

\* C3 as claimed: a handle_event call for a transaction with a monitored
\* sender calls get_transaction_action once and sends the outgoing message
\* once, whatever the toggles and the action text.
C3_Claimed ==
    (pc = "he_ret" /\ from_address(tx) \in ADDRESSES_TO_MONITOR) =>
        /\ Count(callLog, "get_transaction_action", "") = 1
        /\ Count(callLog, "send_telegram_message", "OUT") = 1

\* the action text passes the gate of line 199
PassesGate(text) ==
    \/ ~ ALLOW_SWAP_MESSAGES_ONLY
    \/ (Len(text) >= 1 /\ text[1] = "Swap")
    \/ (ALLOW_AGGREGATED_MESSAGES_ALSO /\ Len(text) >= 1 /\ text[1] = "Aggregated")

\* C3 (amended): a handle_event call that returns, for a transaction with a
\* monitored sender, has called get_transaction_action exactly once and has
\* sent the outgoing message at most once: once when the swap-only gate is
\* off or the action text starts with "Swap" (or "Aggregated", when
\* aggregated messages are allowed), and not at all otherwise.
C3_OncePerEvent ==
    (pc = "he_ret" /\ from_address(tx) \in ADDRESSES_TO_MONITOR) =>
        /\ Count(callLog, "get_transaction_action", "") = 1
        /\ Count(callLog, "send_telegram_message", "OUT")
             = (IF PassesGate(action_text) THEN 1 ELSE 0)

\* C3 witness: a call that returned after one extraction and one outgoing
\* message, with the gate on.
C3_Witness ==
    /\ pc = "he_ret"
    /\ from_address(tx) \in ADDRESSES_TO_MONITOR
    /\ ALLOW_SWAP_MESSAGES_ONLY
    /\ Count(callLog, "get_transaction_action", "") = 1
    /\ Count(callLog, "send_telegram_message", "OUT") = 1

\* C4: in one run of the process no height is given to get_block twice, and
\* of a fetched block no index is handed to handle_event twice: so every
\* transaction is handed at most once, whatever heads the client returns.
C4_AtMostOnce ==
    [][ /\ (pc = "range" /\ pc' = "txs") => block_num \notin fetched
        /\ Hands =>
             /\ tx'.hash[1] = block_num
             /\ block_num \in fetched
             /\ tx'.hash[2] \notin blockHanded ]_vars

\* C4 witness: a head lower than latest_block has been returned after two
\* blocks were fetched and a transaction handed.
C4_Witness ==
    /\ pc = "sleep"
    /\ fetched = { 1, 2 }
    /\ lastHandled # << 0, 0 >>
    /\ current_block < latest_block

\* C5: get_transaction_action never raises to its caller.
C5_NeverRaises == crash.call # "get_transaction_action"

\* C6: when the action-text fetch fails on all attempts, handle_event goes on
\* (to the gate, with the sentinel text) and the process does not terminate.
C6_ContinuesWithSentinel ==
    [][ pc = "he_extract" =>
          \/ pc' = "he_extract"
          \/ (pc' = "he_gate" /\ action_text' \in ActionTexts \cup { Sentinel }) ]_vars

\* C7: after a crash inside a range and the restart, the heights of that
\* range are still above latest_block, so that the loop hands their
\* transactions to handle_event again.
C7_RangeReprocessed ==
    (pc = "poll" /\ lostRange # {}) =>
        \A b \in lostRange : b > latest_block

\* C10: the process terminates on a failing call only after the call has
\* failed on 5 consecutive attempts.
C10_EveryCallRetried == pc = "crashed" => crash.fails = Tries

-----------------------------------------------------------------------------
(* Properties of the retry wrapper, under SpecRetry *)

Called == retry_out.attempts > 0

\* attempts 1..k raise
FailsUpTo(k) == \A i \in 1..k : ~ retry_in.outcomes[i].ok

\* C8: a wrapped call whose attempts 1 to 4 raise and whose attempt 5 returns
\* returns that result; one whose 5 attempts raise makes no 6th attempt and
\* raises the error of the 5th.
C8_FifthAttempt ==
    Called =>
        /\ retry_out.attempts <= Tries
        /\ FailsUpTo(Tries - 1) =>
             /\ retry_out.attempts = Tries
             /\ retry_out.val = retry_in.outcomes[Tries].val
             /\ retry_out.raised = ~ retry_in.outcomes[Tries].ok

\* C8 witness: four attempts raised, the fifth returned, and the wrapper
\* returned its result.
C8_Witness ==
    /\ Called
    /\ FailsUpTo(Tries - 1)
    /\ retry_in.outcomes[Tries].ok
    /\ ~ retry_out.raised
    /\ retry_out.val = << "result", Tries >>

\* C9 as claimed: the delay slept before attempt N is at most
\* Delay * 2^(N-1) + JitterHi, for N in 2..5.
C9_Claimed ==
    Called =>
        \A N \in 2..retry_out.attempts :
            retry_out.sleeps[N - 1] <= Delay * Backoff ^ (N - 1) + JitterHi

\* C9 (amended): the delay slept before attempt N is at most
\* Delay * 2^(N-2) + JitterHi * (2^(N-2) - 1), that is 2, 7, 17, 37 for
\* N = 2..5: the jitter is added to the running delay and doubled with it.
\* The claimed bound holds for N in 2..4.
C9_DelayBound ==
    Called =>
        \A N \in 2..retry_out.attempts :
            /\ retry_out.sleeps[N - 1]
                 <= Delay * Backoff ^ (N - 2) + JitterHi * (Backoff ^ (N - 2) - 1)
            /\ N <= 4 =>
                 retry_out.sleeps[N - 1] <= Delay * Backoff ^ (N - 1) + JitterHi

\* C9 witness: five attempts were made and the delay before the fifth went
\* over the claimed bound.
C9_Witness ==
    /\ Called
    /\ retry_out.attempts = Tries
    /\ retry_out.sleeps[Tries - 1] > Delay * Backoff ^ (Tries - 1) + JitterHi

-----------------------------------------------------------------------------
(* Properties of handle_event, under Spec *)

\* number of calls of `name` in callLog, of any kind
Calls(name) ==
    Cardinality({ i \in 1..Len(callLog) : callLog[i].call = name })

\* handle_event is returning from a call for a monitored sender
ReturnedOutgoing ==
    pc = "he_ret" /\ from_address(tx) \in ADDRESSES_TO_MONITOR

\* the first word of the action text
FirstWord(text) == IF Len(text) = 0 THEN "" ELSE text[1]

\* C11: with ALLOW_SWAP_MESSAGES_ONLY on, handle_event sends the outgoing
\* message or starts a forward only for an action text that begins with
\* "Swap", or with "Aggregated" while ALLOW_AGGREGATED_MESSAGES_ALSO is on;
\* with the gate off, a call that returns for a monitored sender has sent
\* the outgoing message whatever the text (and forwarded it, if enabled).
C11_SwapOnlyGate ==
    /\ (ALLOW_SWAP_MESSAGES_ONLY
          /\ ( \/ Count(callLog, "send_telegram_message", "OUT") > 0
               \/ Calls("notify_trading_bot") > 0 ))
         => \/ FirstWord(action_text) = "Swap"
            \/ ( /\ FirstWord(action_text) = "Aggregated"
                 /\ ALLOW_AGGREGATED_MESSAGES_ALSO )
    /\ (~ ALLOW_SWAP_MESSAGES_ONLY /\ ReturnedOutgoing)
         => /\ Count(callLog, "send_telegram_message", "OUT") = 1
            /\ ALLOW_MONEYTREE_TRADING_BOT_INTERACTION
                 => Calls("notify_trading_bot") = 1

\* C11 witness: with the gate on and aggregated messages not allowed, a
\* call for a monitored sender returned on an "Aggregated" text having
\* neither sent nor forwarded.
C11_Witness ==
    /\ ReturnedOutgoing
    /\ ALLOW_SWAP_MESSAGES_ONLY
    /\ ~ ALLOW_AGGREGATED_MESSAGES_ALSO
    /\ ALLOW_MONEYTREE_TRADING_BOT_INTERACTION
    /\ FirstWord(action_text) = "Aggregated"
    /\ Calls("get_transaction_action") = 1
    /\ Len(callLog) = 1

\* C12: with ALLOW_SWAP_MESSAGES_ONLY on, handle_event never gives an
\* INCOMING message to send_telegram_message, whoever sends and receives.
C12_NoIncomingWhenGated ==
    [][ (Sends /\ callLog'[Len(callLog')].kind = "IN")
          => ~ ALLOW_SWAP_MESSAGES_ONLY ]_vars

\* C12 witness: with the gate on, handle_event returned for a transaction
\* between two monitored addresses: the outgoing message and no incoming one.
C12_Witness ==
    /\ ALLOW_SWAP_MESSAGES_ONLY
    /\ ReturnedOutgoing
    /\ to_address(tx) \in ADDRESSES_TO_MONITOR
    /\ Count(callLog, "send_telegram_message", "OUT") = 1
    /\ Count(callLog, "send_telegram_message", "IN") = 0

\* the messages given to send_telegram_message by the current call, in order
RECURSIVE SentKinds(_)
SentKinds(log) ==
    IF log = << >>
    THEN << >>
    ELSE (IF Head(log).call = "send_telegram_message"
          THEN << Head(log).kind >> ELSE << >>) \o SentKinds(Tail(log))

HasPair(text, a, b) ==
    \E i \in 1..(Len(text) - 1) : text[i] = a /\ text[i + 1] = b

\* the label the text calls for
ExpectedLabel(text) ==
    LET buy == HasPair(text, "ETH", "For")
        sell == HasPair(text, "ETH", "On")
    IN  IF buy /\ sell THEN << "BUY", "SELL" >>
        ELSE IF buy THEN << "BUY" >>
        ELSE IF sell THEN << "SELL" >>
        ELSE << >>

\* C14: every outgoing message given to send_telegram_message is labelled
\* BUY when the action text contains "ETH For" and not "ETH On", SELL when
\* it contains "ETH On" and not "ETH For", BUY then SELL when it contains
\* both, and carries no label when it contains neither.
C14_Labels ==
    \A i \in 1..Len(callLog) :
        (callLog[i].call = "send_telegram_message" /\ callLog[i].kind = "OUT")
            => callLog[i].arg.label = ExpectedLabel(action_text)

\* C14 witness: an outgoing message labelled BUY then SELL has been sent for
\* a text that contains "ETH For" and "ETH On".
C14_Witness ==
    /\ ReturnedOutgoing
    /\ HasPair(action_text, "ETH", "For")
    /\ HasPair(action_text, "ETH", "On")
    /\ \E i \in 1..Len(callLog) :
         /\ callLog[i].kind = "OUT"
         /\ callLog[i].arg.label = << "BUY", "SELL" >>

-----------------------------------------------------------------------------
(* Properties of the extraction, under SpecPage *)

\* the first line of the page that holds the marker, or 0
MarkerAt(lines) ==
    IF \E i \in 1..Len(lines) : HasMarker(lines[i])
    THEN CHOOSE i \in 1..Len(lines) :
           /\ HasMarker(lines[i])
           /\ \A l \in 1..(i - 1) : ~ HasMarker(lines[l])
    ELSE 0

\* the first line after line i that contains "Sponsored:", or 0
SponsoredAfter(lines, i) ==
    IF \E j \in (i + 1)..Len(lines) : HasSponsored(lines[j])
    THEN CHOOSE j \in (i + 1)..Len(lines) :
           /\ HasSponsored(lines[j])
           /\ \A l \in (i + 1)..(j - 1) : ~ HasSponsored(lines[l])
    ELSE 0

\* the text the three-level ladder calls for
Ladder(lines) ==
    LET i == MarkerAt(lines)
        j == SponsoredAfter(lines, i)
    IN  IF i = 0
        THEN Sentinel
        ELSE IF clean_html(StripMarker(lines[i])) # << >>
        THEN Finish(StripMarker(lines[i]))
        ELSE IF i < Len(lines) /\ clean_html(lines[i + 1]) # << >>
        THEN Finish(lines[i + 1])
        ELSE IF j # 0 /\ clean_html(Join(lines, i + 1, j - 1)) # << >>
        THEN Finish(Join(lines, i + 1, j - 1))
        ELSE Sentinel

\* C15: for every page of status 200, get_transaction_action returns the
\* text of the first level of the ladder (rest of the marker line, next
\* line, lines up to "Sponsored:") that is non-empty after sanitization, and
\* the sentinel when there is none or the marker is absent; it never raises.
C15_Ladder ==
    Extracted => (page_out.ok /\ page_out.val = Ladder(page))

-----------------------------------------------------------------------------
(* Properties of the forward thread, under Spec *)

\* a forward thread runs notify_trading_bot and ends
ForwardEnds == threads' < threads

\* C16: notify_trading_bot runs on its own thread: while a forward is
\* pending the main thread can take its next step (the Telegram message of
\* the same transaction and every later step of log_loop); the end of a
\* forward, failed or not, leaves the position of the main thread,
\* latest_block and the crash record unchanged; and a forward that failed
\* made one post only.
C16_ForwardOnOwnThread ==
    /\ []((threads > 0 /\ pc # "crashed") => ENABLED MainThreadStep)
    /\ [](forwarded # NoForward => forwarded.posts = 1)
    /\ [][ ForwardEnds =>
             /\ pc' = pc
             /\ latest_block' = latest_block
             /\ crash' = crash ]_vars

\* C16 witness: a forward has failed and another is pending, and log_loop
\* has finished a range and advanced latest_block.
C16_Witness ==
    /\ forwarded.error
    /\ threads > 0
    /\ pc = "sleep"
    /\ latest_block = current_block
    /\ latest_block > start_block
    /\ lastSent # << 0, 0 >>

-----------------------------------------------------------------------------
(* Properties of handle_event for a transaction without recipient *)

\* handle_event is at work on a transaction whose tx['to'] is None
NoRecipient == pc \in { "he_extract", "he_gate", "he_send_out", "he_to" }
                 /\ tx.to = None

\* C17: for a transaction with to = None, entering handle_event (lines
\* 183-189) does not raise; no INCOMING message is sent: the incoming branch
\* returns without a call and without raising; a message is sent or a call
\* raises only in the outgoing branch, for a monitored sender.
C17_NoRecipient ==
    [][ /\ pc = "txs" => pc' # "crashed"
        /\ NoRecipient =>
             /\ Sends => /\ callLog'[Len(callLog')].kind = "OUT"
                         /\ from_address(tx) \in ADDRESSES_TO_MONITOR
             /\ (pc = "he_to" /\ pc' # pc)
                  => (pc' = "he_ret" /\ callLog' = callLog)
             /\ pc' = "crashed" =>
                  /\ pc \in { "he_extract", "he_send_out" }
                  /\ from_address(tx) \in ADDRESSES_TO_MONITOR ]_vars

\* C17 witness: with the gate off, handle_event returned for a contract
\* creation by a monitored sender: the outgoing message and no INCOMING one.
C17_Witness ==
    /\ pc = "he_ret"
    /\ tx.to = None
    /\ ~ ALLOW_SWAP_MESSAGES_ONLY
    /\ SentKinds(callLog) = << "OUT" >>

-----------------------------------------------------------------------------
(* Properties of the start of the forward thread, under Spec *)

\* positions of callLog that hold a call of `name`
At(name) == { i \in 1..Len(callLog) : callLog[i].call = name }

\* the name ADDRESS_MAP gives the sender of the transaction handled
SenderName ==
    IF tx.from = "0xAA" THEN "Alice"
    ELSE IF tx.from = "0xBB" THEN "Bob"
    ELSE "0xcc"

\* C19: with ALLOW_MONEYTREE_TRADING_BOT_INTERACTION on, one handle_event
\* call starts at most one forward thread; it starts it only for a monitored
\* sender whose action text passes the gate, before the outgoing message is
\* given to send_telegram_message, and with the from_name, tx_hash and
\* action_text of the transaction handled; a call that returns has started
\* one exactly when the sender is monitored and the text passes the gate.
C19_ForwardPerEvent ==
    ALLOW_MONEYTREE_TRADING_BOT_INTERACTION =>
        /\ Cardinality(At("notify_trading_bot")) <= 1
        /\ \A i \in At("notify_trading_bot") :
             /\ from_address(tx) \in ADDRESSES_TO_MONITOR
             /\ PassesGate(action_text)
             /\ callLog[i].arg.from_name = SenderName
             /\ callLog[i].arg.tx_hash = lastHandled
             /\ callLog[i].arg.action_text = action_text
        /\ \A i \in At("send_telegram_message") :
             callLog[i].kind = "OUT"
               => \E k \in At("notify_trading_bot") : k < i
        /\ pc = "he_ret" =>
             Cardinality(At("notify_trading_bot"))
               = (IF from_address(tx) \in ADDRESSES_TO_MONITOR
                     /\ PassesGate(action_text)
                  THEN 1 ELSE 0)

\* C19 witness: the second transaction of a block, after a notified one,
\* has had its forward thread started and then its outgoing message sent.
C19_Witness ==
    /\ ALLOW_MONEYTREE_TRADING_BOT_INTERACTION
    /\ pc = "he_ret"
    /\ lastHandled[2] = 2
    /\ Len(callLog) = 3
    /\ callLog[2].call = "notify_trading_bot"
    /\ callLog[2].arg.tx_hash = tx.hash
    /\ callLog[3].call = "send_telegram_message"

-----------------------------------------------------------------------------
(* Liveness of log_loop, under SpecLive *)

\* height b is above the head got at startup and at most a head got since
Due(b) == start_block # NoBlock /\ b > start_block /\ b <= current_block

\* height b has been fetched and all its transactions handled
Processed(b) == b \in fetched /\ b \in blocksDone

\* C18: in a run of SpecLive, where no call raises (every retry-wrapped
\* call succeeds within its attempts, every handle_event call returns, the
\* head keeps being fetched), every height above the head got at startup and
\* at most a head got later is eventually fetched and all its transactions
\* handed to handle_event; and no height at or below the startup head is
\* ever fetched.
C18_EveryBlockProcessed ==
    /\ [](\A b \in fetched : b > start_block)
    /\ \A b \in 1..MaxHead : Due(b) ~> Processed(b)

\* C18 witness: from startup head 0, the heights 1 and 2 of a later head
\* have been fetched and all their transactions handed to handle_event.
C18_Witness ==
    /\ start_block = 0
    /\ current_block = 2
    /\ Processed(1)
    /\ Processed(2)
    /\ lastHandled = << 2, 2 >>
    /\ pc = "sleep"

=============================================================================
